---- MODULE Spec2Model ----
(***************************************************************************)
(* Model of nerfstudio.py: NerfTrainingLogger, a wrapper that assembles    *)
(* ns-train / ns-export command lines, spawns them as child processes,     *)
(* tees their output into timestamped log files and reports a boolean.     *)
(*                                                                         *)
(* Python strings are modelled as sequences of one-character strings so    *)
(* that str.split, str.startswith, " ".join and os.path.join are computed  *)
(* character by character.  The file system, the wall clock, the child     *)
(* processes and the outcome of each I/O call form the environment.        *)
(***************************************************************************)
EXTENDS Integers, Sequences, FiniteSets, TLC

VARIABLES
    now,        \* wall clock, in ticks of 1/TicksPerSecond second
    condaEnv,   \* value of os.environ['CONDA_DEFAULT_ENV']
    dirs,       \* directories that exist
    files,      \* result descriptors (config.yml) that exist
    logs,       \* log files: path -> sequence of entries in the file
    params,     \* parameter snapshot files: path -> <<record>>, <<>> if empty
    procs,      \* child processes spawned so far, in spawn order
    pc,         \* position of the single thread of control
    frame,      \* arguments and locals of the running call
    events,     \* returns observed during the current top-level call
    calls,      \* number of top-level calls issued so far
    cargs,      \* command builder: arguments under test
    ccmd        \* command builder: assembled ns-train command

vars ==
    <<now, condaEnv, dirs, files, logs, params, procs, pc, frame, events,
      calls, cargs, ccmd>>

runVars ==
    <<now, condaEnv, dirs, files, logs, params, procs, pc, frame, events,
      calls>>

(***************************************************************************)
(* Bounds                                                                  *)
(***************************************************************************)
MaxRuns ==
    2

MaxNow ==
    2

MaxLines ==
    1

MaxOverrides ==
    2

(***************************************************************************)
(* String literals of the program                                          *)
(***************************************************************************)
S_ns_train ==
    <<"n","s","-","t","r","a","i","n">>

S_data ==
    <<"-","-","d","a","t","a">>

S_method_name ==
    <<"-","-","m","e","t","h","o","d","-","n","a","m","e">>

S_experiment_name ==
    <<"-","-","e","x","p","e","r","i","m","e","n","t","_","n","a","m","e">>

S_output_dir ==
    <<"-","-","o","u","t","p","u","t","-","d","i","r">>

S_quit_on_completion ==
    <<"-","-","v","i","e","w","e","r",".","q","u","i","t","-","o","n","-","t","r","a","i","n","-","c","o","m","p","l","e","t","i","o","n">>

S_steps_per_log ==
    <<"-","-","l","o","g","g","i","n","g",".","s","t","e","p","s","-","p","e","r","-","l","o","g">>

S_100 ==
    <<"1","0","0">>

S_max_log_size ==
    <<"-","-","l","o","g","g","i","n","g",".","l","o","c","a","l","-","w","r","i","t","e","r",".","m","a","x","-","l","o","g","-","s","i","z","e">>

S_0 ==
    <<"0">>

S_True ==
    <<"T","r","u","e">>

S_False ==
    <<"F","a","l","s","e">>

S_ns_export ==
    <<"n","s","-","e","x","p","o","r","t">>

S_gaussian_splat ==
    <<"g","a","u","s","s","i","a","n","-","s","p","l","a","t">>

S_pointcloud ==
    <<"p","o","i","n","t","c","l","o","u","d">>

S_load_config ==
    <<"-","-","l","o","a","d","-","c","o","n","f","i","g">>

S_num_points ==
    <<"-","-","n","u","m","-","p","o","i","n","t","s">>

S_remove_outliers ==
    <<"-","-","r","e","m","o","v","e","-","o","u","t","l","i","e","r","s">>

S_normal_method ==
    <<"-","-","n","o","r","m","a","l","-","m","e","t","h","o","d">>

S_save_world_frame ==
    <<"-","-","s","a","v","e","-","w","o","r","l","d","-","f","r","a","m","e">>

S_open3d ==
    <<"o","p","e","n","3","d">>

S_1000000 ==
    <<"1","0","0","0","0","0","0">>

S_downscale_factor ==
    <<"-","-","d","o","w","n","s","c","a","l","e","-","f","a","c","t","o","r">>

S_nerfstudio_data ==
    <<"n","e","r","f","s","t","u","d","i","o","-","d","a","t","a">>

S_colmap ==
    <<"c","o","l","m","a","p">>

S_splatfacto ==
    <<"s","p","l","a","t","f","a","c","t","o">>

S_nerfacto ==
    <<"n","e","r","f","a","c","t","o">>

S_instant_ngp ==
    <<"i","n","s","t","a","n","t","-","n","g","p">>

S_nerf_data ==
    <<"n","e","r","f","/","n","e","r","f","_","d","a","t","a">>

S_run ==
    <<"r","u","n">>

S_config_yml ==
    <<"c","o","n","f","i","g",".","y","m","l">>

S_bin_bash ==
    <<"/","b","i","n","/","b","a","s","h">>

S_dash_c ==
    <<"-","c">>

S_gaussian_export_ ==
    <<"g","a","u","s","s","i","a","n","_","e","x","p","o","r","t","_">>

S_pointcloud_export_ ==
    <<"p","o","i","n","t","c","l","o","u","d","_","e","x","p","o","r","t","_">>

S_training_ ==
    <<"t","r","a","i","n","i","n","g","_">>

S_params_ ==
    <<"p","a","r","a","m","s","_">>

S_log ==
    <<".","l","o","g">>

S_json ==
    <<".","j","s","o","n">>

Ov_downscale_4 ==
    <<"-","-","d","o","w","n","s","c","a","l","e","-","f","a","c","t","o","r"," ","4">>

Ov_pipeline_x_off ==
    <<"-","-","p","i","p","e","l","i","n","e",".","m","o","d","e","l",".","x"," ","o","f","f">>

Ov_timestamp_run ==
    <<"-","-","t","i","m","e","s","t","a","m","p"," ","r","u","n">>

Ov_leading_space ==
    <<" ","-","-","d","o","w","n","s","c","a","l","e","-","f","a","c","t","o","r"," ","2">>

Ov_downscale_suffix ==
    <<"-","-","d","o","w","n","s","c","a","l","e","-","f","a","c","t","o","r","-","x","\t"," ","8">>

Ov_empty ==
    <<>>

Ov_selector ==
    <<"n","e","r","f","s","t","u","d","i","o","-","d","a","t","a">>

Ov_vertical_tab ==
    <<"-","-","a","U+000B","b">>

Ov_downscale_fs ==
    <<"-","-","d","o","w","n","s","c","a","l","e","-","f","a","c","t","o","r","U+001C","4">>

Ov_unit_separator ==
    <<"x","U+001F","y">>

BaseDir ==
    <<"/","b">>

ExperimentName ==
    <<"e">>

OtherOutDir ==
    <<"/","o","u","t">>

Exp_example ==
    <<"n","s","-","t","r","a","i","n"," ","s","p","l","a","t","f","a","c","t","o"," ","-","-","d","a","t","a"," ","/","b","/","n","e","r","f","/","n","e","r","f","_","d","a","t","a"," ","-","-","m","e","t","h","o","d","-","n","a","m","e"," ","s","p","l","a","t","f","a","c","t","o"," ","-","-","e","x","p","e","r","i","m","e","n","t","_","n","a","m","e"," ","e"," ","-","-","o","u","t","p","u","t","-","d","i","r"," ","/","b","/","n","e","r","f","/","n","e","r","f","_","d","a","t","a"," ","-","-","v","i","e","w","e","r",".","q","u","i","t","-","o","n","-","t","r","a","i","n","-","c","o","m","p","l","e","t","i","o","n"," ","F","a","l","s","e"," ","-","-","l","o","g","g","i","n","g",".","s","t","e","p","s","-","p","e","r","-","l","o","g"," ","1","0","0"," ","-","-","l","o","g","g","i","n","g",".","l","o","c","a","l","-","w","r","i","t","e","r",".","m","a","x","-","l","o","g","-","s","i","z","e"," ","0"," ","-","-","p","i","p","e","l","i","n","e",".","m","o","d","e","l",".","x"," ","o","f","f"," ","n","e","r","f","s","t","u","d","i","o","-","d","a","t","a"," ","-","-","d","o","w","n","s","c","a","l","e","-","f","a","c","t","o","r"," ","4">>

(***************************************************************************)
(* String functions                                                        *)
(***************************************************************************)
\* The characters str.split() treats as separators (those for which
\* str.isspace() holds).  A character without a TLA+ string escape is
\* written as its code point, "U+000B".
Whitespace ==
    {" ", "\t", "\n", "\r", "\f", "U+000B", "U+001C", "U+001D", "U+001E",
     "U+001F", "U+0085", "U+00A0", "U+1680", "U+2000", "U+2001", "U+2002",
     "U+2003", "U+2004", "U+2005", "U+2006", "U+2007", "U+2008", "U+2009",
     "U+200A", "U+2028", "U+2029", "U+202F", "U+205F", "U+3000"}

\* str.startswith(prefix)
StartsWith(s, prefix) ==
    /\ Len(s) >= Len(prefix)
    /\ SubSeq(s, 1, Len(prefix)) = prefix

RECURSIVE SplitFrom(_, _, _)
\* str.split() scanning s from index i with the pending word cur
SplitFrom(s, i, cur) ==
    IF i > Len(s)
    THEN IF cur = <<>> THEN <<>> ELSE <<cur>>
    ELSE IF s[i] \in Whitespace
         THEN IF cur = <<>>
              THEN SplitFrom(s, i + 1, <<>>)
              ELSE <<cur>> \o SplitFrom(s, i + 1, <<>>)
         ELSE SplitFrom(s, i + 1, Append(cur, s[i]))

\* str.split(): the maximal runs of non-whitespace characters
Split(s) ==
    SplitFrom(s, 1, <<>>)

RECURSIVE Join(_)
\* ' '.join(tokens)
Join(tokens) ==
    IF tokens = <<>> THEN <<>>
    ELSE IF Len(tokens) = 1 THEN tokens[1]
    ELSE tokens[1] \o <<" ">> \o Join(Tail(tokens))

\* os.path.join(a, b) on POSIX
PathJoin(a, b) ==
    IF StartsWith(b, <<"/">>) THEN b
    ELSE IF a = <<>> \/ a[Len(a)] = "/" THEN a \o b
    ELSE a \o <<"/">> \o b

Digit(d) ==
    <<"0", "1", "2", "3", "4", "5", "6", "7", "8", "9">>[d + 1]

RECURSIVE IntStr(_)
\* str(n) for an integer
IntStr(n) ==
    IF n < 0 THEN <<"-">> \o IntStr(-n)
    ELSE IF n < 10 THEN <<Digit(n)>>
    ELSE Append(IntStr(n \div 10), Digit(n % 10))

\* str(b) for a boolean
BoolStr(b) ==
    IF b THEN S_True ELSE S_False

TwoDigits(n) ==
    <<Digit((n \div 10) % 10), Digit(n % 10)>>

TicksPerSecond ==
    2

\* the calendar date of day number z, counted from 1970-01-01
CivilFromDays(z) ==
    LET zz  == z + 719468
        era == zz \div 146097
        doe == zz - era * 146097
        yoe == (doe - doe \div 1460 + doe \div 36524 - doe \div 146096) \div 365
        doy == doe - (365 * yoe + yoe \div 4 - yoe \div 100)
        mp  == (5 * doy + 2) \div 153
        d   == doy - (153 * mp + 2) \div 5 + 1
        m   == IF mp < 10 THEN mp + 3 ELSE mp - 9
        y   == yoe + era * 400 + (IF m <= 2 THEN 1 ELSE 0)
    IN  [year |-> y, month |-> m, day |-> d]

\* datetime.now() at clock value t: the clock counts ticks of local time
\* from 2026-10-31 12:00:00; the result is in whole seconds since
\* 1970-01-01 00:00:00
NowSeconds(t) ==
    20757 * 86400 + 12 * 3600 + t \div TicksPerSecond

\* strftime("%Y%m%d_%H%M%S") of a time given in whole seconds
Strftime(t) ==
    LET s    == NowSeconds(t)
        date == CivilFromDays(s \div 86400)
        sod  == s % 86400
    IN  IntStr(date.year) \o TwoDigits(date.month) \o TwoDigits(date.day)
        \o <<"_">>
        \o TwoDigits(sod \div 3600) \o TwoDigits((sod \div 60) % 60)
        \o TwoDigits(sod % 60)

(***************************************************************************)
(* train_simple: command assembly                                          *)
(***************************************************************************)
\* param.startswith("--downscale-factor")
IsDataparserParam(param) ==
    StartsWith(param, S_downscale_factor)

RECURSIVE DataparserParams(_)
\* the loop's dataparser_params list
DataparserParams(config) ==
    IF config = <<>> THEN <<>>
    ELSE (IF IsDataparserParam(Head(config)) THEN Split(Head(config)) ELSE <<>>)
         \o DataparserParams(Tail(config))

RECURSIVE GeneralConfig(_)
\* the loop's general_config list
GeneralConfig(config) ==
    IF config = <<>> THEN <<>>
    ELSE (IF IsDataparserParam(Head(config)) THEN <<>> ELSE Split(Head(config)))
         \o GeneralConfig(Tail(config))

DataPath(base_dir) ==
    PathJoin(base_dir, S_nerf_data)

FixedTrainArgs(method, base_dir, experiment_name, quit_viewer) ==
    << S_ns_train, method,
       S_data, DataPath(base_dir),
       S_method_name, method,
       S_experiment_name, experiment_name,
       S_output_dir, DataPath(base_dir),
       S_quit_on_completion, BoolStr(quit_viewer),
       S_steps_per_log, S_100,
       S_max_log_size, S_0 >>

\* variant that appends the dataparser token after its parameters
PlaceGroups_SelectorLast(fixed, general, dataparser, dp_params) ==
    fixed \o general \o dp_params \o <<dataparser>>

\* Where the builder puts the three variable groups after the fixed flags
PlaceGroups(fixed, general, dataparser, dp_params) ==
    fixed \o general \o <<dataparser>> \o dp_params

NsCmd(method, base_dir, experiment_name, config, dataparser, quit_viewer) ==
    PlaceGroups(FixedTrainArgs(method, base_dir, experiment_name, quit_viewer),
                GeneralConfig(config), dataparser, DataparserParams(config))

ExperimentLogDir(base_dir, experiment_name, method) ==
    PathJoin(PathJoin(DataPath(base_dir), experiment_name), method)

\* the descriptor looked up by train_simple after a successful run
ConfigPath(base_dir, experiment_name, method) ==
    PathJoin(PathJoin(ExperimentLogDir(base_dir, experiment_name, method),
                      S_run), S_config_yml)

TrainingLogFile(dir, timestamp) ==
    PathJoin(dir, S_training_ \o timestamp \o S_log)

ParamsFile(dir, timestamp) ==
    PathJoin(dir, S_params_ \o timestamp \o S_json)

(***************************************************************************)
(* export_gaussian_splat / export_pointcloud: command assembly             *)
(***************************************************************************)
pointcloud_params ==
    [num_points |-> 1000000, remove_outliers |-> TRUE,
     normal_method |-> S_open3d, save_world_frame |-> FALSE]

GaussianExportCmd(config_path, output_dir) ==
    << S_ns_export, S_gaussian_splat,
       S_load_config, config_path,
       S_output_dir, output_dir >>

PointcloudExportCmd(config_path, output_dir, p) ==
    << S_ns_export, S_pointcloud,
       S_load_config, config_path,
       S_output_dir, output_dir,
       S_num_points, IntStr(p.num_points),
       S_remove_outliers, BoolStr(p.remove_outliers),
       S_normal_method, p.normal_method,
       S_save_world_frame, BoolStr(p.save_world_frame) >>

ExportCmd(variant, config_path, output_dir, p) ==
    IF variant = "gaussian_splat"
    THEN GaussianExportCmd(config_path, output_dir)
    ELSE PointcloudExportCmd(config_path, output_dir, p)

ExportLogFile(variant, output_dir, timestamp) ==
    PathJoin(output_dir,
             (IF variant = "gaussian_splat" THEN S_gaussian_export_
                                            ELSE S_pointcloud_export_)
             \o timestamp \o S_log)

\* subprocess.Popen(cmd, shell=..., executable=...): the argv handed to
\* execve.  With shell=True and a list, Popen runs
\* [executable, "-c", cmd[0], cmd[1], ...].
PopenArgv(cmd, shell) ==
    IF shell THEN <<S_bin_bash, S_dash_c>> \o cmd ELSE cmd

\* The invocation of the external tool that results: "bash -c STRING a0 a1.."
\* runs STRING as the command line and binds the remaining words to $0, $1,
\* ... which STRING does not mention.
ToolInvocation(cmd, shell) ==
    IF shell THEN Split(PopenArgv(cmd, shell)[3]) ELSE PopenArgv(cmd, shell)

\* shell=True is passed by export_gaussian_splat only
UsesShell(kind) ==
    kind = "gaussian_splat"

(***************************************************************************)
(* Inputs and environment                                                  *)
(***************************************************************************)
Methods ==
    {S_splatfacto, S_nerfacto, S_instant_ngp}

ExportMethods ==
    {S_splatfacto, S_nerfacto}

\* process.returncode of a child that has terminated: its exit status, or
\* the negated number of the signal that killed it
ExitCodes ==
    {0, 1, 127, -9}

\* process.returncode of a child that has not been waited for (None), and
\* the return_code key that the first parameter snapshot does not have
NoReturnCode ==
    -1000

\* override lists passed to train_simple while processes are run
RunConfigs ==
    {<<Ov_pipeline_x_off, Ov_timestamp_run, Ov_downscale_4>>}

ExpDir(m) ==
    ExperimentLogDir(BaseDir, ExperimentName, m)

Descriptor(m) ==
    ConfigPath(BaseDir, ExperimentName, m)

OutDirs(m) ==
    {ExpDir(m), OtherOutDir}

\* splatfacto models are exported as gaussian splats, nerfacto models as
\* point clouds
TrainedExport(m) ==
    IF m = S_splatfacto THEN "gaussian_splat" ELSE "pointcloud"

NoPath ==
    <<>>

Outcome(b) ==
    IF b THEN "true" ELSE "false"

\* process.returncode == 0
Success(returncode) ==
    returncode = 0

\* variant without the existence test
ConfigExists_Unchecked(config_path, fs) ==
    TRUE

\* os.path.exists(config_path)
ConfigExists(config_path, fs) ==
    config_path \in fs

\* check_conda_environment()
CheckCondaEnvironment(current_env) ==
    current_env = "nerfstudio"

\* variant whose last branch exports a point cloud for every other method
ExportVariantFor_ElsePointcloud(method) ==
    IF method = S_splatfacto THEN "gaussian_splat" ELSE "pointcloud"

\* the method -> export mapping of train_simple
ExportVariantFor(method) ==
    IF method = S_splatfacto THEN "gaussian_splat"
    ELSE IF method = S_nerfacto THEN "pointcloud"
    ELSE "none"

Entry(kind, text) ==
    [kind |-> kind, text |-> text]

TrainingHeader(cmd) ==
    << Entry("=== TRAINING START ===", <<>>),
       Entry("Command:", Join(cmd)),
       Entry("Conda Environment:", <<>>) >>

ExportHeader(variant, cmd, config_path, output_dir, p) ==
    << Entry(IF variant = "gaussian_splat"
             THEN "=== GAUSSIAN SPLAT EXPORT START ==="
             ELSE "=== POINTCLOUD EXPORT START ===", <<>>),
       Entry("Command:", Join(cmd)),
       Entry("Config:", config_path),
       Entry("Output Directory:", output_dir) >>
    \o (IF variant = "pointcloud"
        THEN << Entry("Number of points:", IntStr(p.num_points)),
                Entry("Remove outliers:", BoolStr(p.remove_outliers)),
                Entry("Normal method:", p.normal_method),
                Entry("Save world frame:", BoolStr(p.save_world_frame)) >>
        ELSE << >>)
    \o << Entry("Conda Environment:", <<>>) >>

Footer(returncode) ==
    << Entry("Duration:", <<>>),
       Entry("Return code:", IntStr(returncode)) >>

ExceptionMarker ==
    Entry("EXCEPTION:", <<>>)

\* what is left of an entry whose text reached the file only in part
Cut ==
    Entry("cut", <<>>)

\* what a write of content that raises can have put into the file: the
\* entries up to some point, the next one possibly cut
PartialWrites(content) ==
    {SubSeq(content, 1, k) : k \in 0..Len(content)}
    \cup {Append(SubSeq(content, 1, k), Cut) : k \in 0..(Len(content) - 1)}

\* open(path, 'w') followed by writes of content
WriteFile(fs, path, content) ==
    [p \in DOMAIN fs \cup {path} |-> IF p = path THEN content ELSE fs[p]]

\* open(path, 'a') followed by writes of content
AppendFile(fs, path, content) ==
    [p \in DOMAIN fs \cup {path} |->
        IF p = path
        THEN (IF path \in DOMAIN fs THEN fs[path] ELSE <<>>) \o content
        ELSE fs[p]]

IdleFrame ==
    [top |-> "none", method |-> <<>>, export_geometry |-> FALSE,
     config |-> <<>>, variant |-> "none", config_path |-> NoPath,
     output_dir |-> NoPath, pcp |-> pointcloud_params,
     timestamp |-> <<>>, log_file |-> NoPath, opened_w |-> FALSE,
     buffer |-> <<>>, child |-> 0, lines |-> 0, training_success |-> "unset",
     n_gs |-> 0, n_pc |-> 0, cfg_present |-> FALSE]

\* what an observer of the call sees when op returns: its result, the child
\* it spawned (0 if none) and that child's exit status (NoReturnCode if not exited)
Event(op, result, why, f) ==
    [op |-> op, result |-> result, why |-> why, child |-> f.child,
     rc |-> IF f.child = 0 THEN NoReturnCode ELSE procs[f.child].rc,
     log |-> f.log_file, opened_w |-> f.opened_w, training |-> f.training_success,
     n_gs |-> f.n_gs, n_pc |-> f.n_pc, cfg_present |-> f.cfg_present,
     method |-> f.method, export_geometry |-> f.export_geometry]

\* a child whose exit status nobody will read any more
Reaped ==
    [kind |-> "reaped", method |-> <<>>, tool |-> <<>>, st |-> "exited",
     rc |-> NoReturnCode]

Running ==
    {i \in DOMAIN procs : procs[i].st = "running"}

Init ==
    /\ now = 0
    /\ condaEnv \in {"nerfstudio", "base"}
    /\ \E trained \in {{}, ExportMethods} :
          /\ files = {Descriptor(m) : m \in trained}
          /\ dirs = {ExpDir(m) : m \in trained}
    /\ logs = <<>>
    /\ params = <<>>
    /\ procs = <<>>
    /\ pc = "idle"
    /\ frame = IdleFrame
    /\ events = <<>>
    /\ calls = 0
    /\ cargs = <<>>
    /\ ccmd = <<>>

(***************************************************************************)
(* Environment steps                                                       *)
(***************************************************************************)
\* the wall clock advances
Tick ==
    /\ now < MaxNow
    /\ now' = now + 1
    /\ UNCHANGED <<condaEnv, dirs, files, logs, params, procs, pc, frame,
                   events, calls, cargs, ccmd>>

\* a child process terminates; ns-train may have left its run/config.yml.
\* The exit status is kept while the operation that spawned the child is
\* still reading from it or waiting for it.
ChildExit ==
    \E i \in Running, rc \in ExitCodes, wrote \in BOOLEAN :
        /\ procs' = [procs EXCEPT ![i] =
                        IF i = frame.child /\ pc \in {"train_stream", "train_wait",
                                                     "export_stream", "export_wait"}
                        THEN [@ EXCEPT !.st = "exited", !.rc = rc]
                        ELSE Reaped]
        /\ IF procs[i].kind = "train" /\ wrote
           THEN /\ files' = files \cup {Descriptor(procs[i].method)}
                /\ dirs' = dirs \cup {ExpDir(procs[i].method)}
           ELSE UNCHANGED <<files, dirs>>
        /\ UNCHANGED <<now, condaEnv, logs, params, pc, frame, events,
                       calls, cargs, ccmd>>

(***************************************************************************)
(* Top-level callers                                                       *)
(***************************************************************************)
\* a caller invokes train_simple
CallTrainSimple ==
    \E method \in Methods, export_geometry \in BOOLEAN, config \in RunConfigs :
        /\ pc = "idle"
        /\ calls' = calls + 1
        /\ frame' = [IdleFrame EXCEPT !.top = "train_simple",
                                      !.method = method,
                                      !.export_geometry = export_geometry,
                                      !.config = config]
        /\ events' = <<>>
        /\ pc' = "train_enter"
        /\ UNCHANGED <<now, condaEnv, dirs, files, logs, params, procs,
                       cargs, ccmd>>

\* a caller invokes an export of a trained model, as in the __main__ block
CallExport ==
    \E m \in ExportMethods :
      \E output_dir \in OutDirs(m), variant \in {TrainedExport(m)} :
        /\ pc = "idle"
        /\ calls' = calls + 1
        /\ frame' = [IdleFrame EXCEPT !.top = variant,
                                      !.variant = variant,
                                      !.config_path = Descriptor(m),
                                      !.output_dir = output_dir]
        /\ events' = <<>>
        /\ pc' = "export_enter"
        /\ UNCHANGED <<now, condaEnv, dirs, files, logs, params, procs,
                       cargs, ccmd>>

\* the arguments of the call that has returned
LastCall ==
    IF frame.top = "train_simple"
    THEN [IdleFrame EXCEPT !.top = "train_simple",
                           !.method = frame.method,
                           !.export_geometry = frame.export_geometry,
                           !.config = frame.config]
    ELSE [IdleFrame EXCEPT !.top = frame.top,
                           !.variant = frame.top,
                           !.config_path = frame.config_path,
                           !.output_dir = frame.output_dir]

\* the caller runs the same operation with the same arguments once more
Rerun ==
    /\ pc = "returned"
    /\ calls < MaxRuns
    /\ calls' = calls + 1
    /\ frame' = LastCall
    /\ events' = <<>>
    /\ pc' = IF frame.top = "train_simple" THEN "train_enter" ELSE "export_enter"
    /\ UNCHANGED <<now, condaEnv, dirs, files, logs, params, procs,
                   cargs, ccmd>>

(***************************************************************************)
(* train_simple, _try_conda_run, _execute_training                         *)
(***************************************************************************)
\* subprocess.Popen(cmd, ...): the new child and the tool invocation it runs
Spawn(kind, method, cmd) ==
    [kind |-> kind, method |-> method,
     tool |-> ToolInvocation(cmd, UsesShell(kind)),
     st |-> "running", rc |-> NoReturnCode]

\* params_data, restricted to the fields that vary between the two writes
Snapshot(timestamp, returncode) ==
    [timestamp |-> timestamp, return_code |-> returncode, complete |-> TRUE]

\* a parameter snapshot whose JSON text reached the file only in part
CutSnapshot ==
    [timestamp |-> <<>>, return_code |-> NoReturnCode, complete |-> FALSE]

\* "with open(params_file, 'w') as f: json.dump(params_data, f, indent=2)":
\* a failing open leaves the file as it was, a failure after the open leaves
\* the file created or truncated, empty or with part of the text
WriteParams(fs, path, data, io) ==
    CASE io = "ok"      -> WriteFile(fs, path, <<data>>)
      [] io = "partial" -> WriteFile(fs, path, <<CutSnapshot>>)
      [] io = "write"   -> WriteFile(fs, path, <<>>)
      [] io = "open"    -> fs

ParamsOutcomes ==
    {"ok", "open", "write", "partial"}

\* the contents the log file of f can have after the file object wrote
\* content: all of it when the write succeeded, some part of it when it
\* raised
Written(fs, f, content, ok) ==
    IF ok
    THEN {AppendFile(fs, f.log_file, content)}
    ELSE {AppendFile(fs, f.log_file, w) : w \in PartialWrites(content)}

\* the ns-train command of the running train_simple call
TrainCmd(f) ==
    NsCmd(f.method, BaseDir, ExperimentName, f.config, S_nerfstudio_data, FALSE)

\* the child's record once its owner has returned
Release(ps, f) ==
    IF f.child # 0 /\ ps[f.child].st = "exited"
    THEN [ps EXCEPT ![f.child] = Reaped]
    ELSE ps

\* an exception leaves the top-level call
Raise(why, f) ==
    LET g == [f EXCEPT !.buffer = <<>>]
    IN  /\ frame' = g
        /\ events' = Append(events, Event(f.top, "raised", why, g))
        /\ pc' = "returned"

\* exit(-1) in get_conda_command_prefix
Exit(f) ==
    /\ frame' = f
    /\ events' = Append(events, Event(f.top, "exit", "env", f))
    /\ pc' = "dead"

\* _execute_training returns result to train_simple
TrainingReturns(result, why, f) ==
    LET g == [f EXCEPT !.training_success = result, !.buffer = <<>>]
    IN  /\ frame' = g
        /\ events' = Append(events, Event("_execute_training", result, why, g))
        /\ procs' = Release(procs, g)
        /\ pc' = "train_after"

\* train_simple up to the Popen call of _execute_training.  The header is
\* written to the buffer of the file object, not yet to the file; when
\* Popen raises, the with block closes the file object.
TrainEnter ==
    /\ pc = "train_enter"
    /\ \E mk_ok \in BOOLEAN, params_io \in ParamsOutcomes,
          flush_ok \in BOOLEAN, io \in {"ok", "log_open", "spawn"} :
        LET dir       == ExpDir(frame.method)
            timestamp == Strftime(now)
            ns_cmd    == TrainCmd(frame)
            log_file  == TrainingLogFile(dir, timestamp)
            pfile     == ParamsFile(dir, timestamp)
            f0 == [frame EXCEPT !.timestamp = timestamp,
                                !.log_file = log_file]
            f1 == [f0 EXCEPT !.opened_w = TRUE,
                             !.buffer = TrainingHeader(ns_cmd)]
            opened == WriteFile(logs, log_file, <<>>)
        IN
        IF dir \notin dirs /\ ~mk_ok
        THEN \* os.makedirs raises
             /\ Raise("makedirs", f0)
             /\ UNCHANGED <<dirs, params, logs, procs>>
        ELSE
        /\ dirs' = dirs \cup {dir}
        /\ IF ~CheckCondaEnvironment(condaEnv)
           THEN /\ Exit(f0)
                /\ UNCHANGED <<params, logs, procs>>
           ELSE
           /\ params' = WriteParams(params, pfile,
                                    Snapshot(timestamp, NoReturnCode),
                                    params_io)
           /\ IF params_io # "ok"
              THEN \* open(params_file, 'w') / json.dump raises
                   /\ Raise("params_io", f0)
                   /\ UNCHANGED <<logs, procs>>
              ELSE
              CASE io = "log_open" ->
                     /\ TrainingReturns("false", "log_open", f0)
                     /\ UNCHANGED logs
                [] io = "spawn" ->
                     /\ logs' \in Written(opened, f1, f1.buffer, flush_ok)
                     /\ TrainingReturns("false", "spawn", f1)
                [] io = "ok" ->
                     /\ logs' = opened
                     /\ procs' = Append(procs, Spawn("train", frame.method,
                                                        ns_cmd))
                     /\ frame' = [f1 EXCEPT !.child = Len(procs) + 1]
                     /\ pc' = "train_stream"
                     /\ UNCHANGED events
    /\ UNCHANGED <<now, condaEnv, files, calls, cargs, ccmd>>

\* one iteration of "for line in process.stdout": f.write(line); f.flush()
\* puts the buffer and the line into the file.  When reading raises, the
\* with block closes f, which writes the buffer; when the flush raises,
\* part of the buffer and the line may have reached the file.
TrainStream ==
    /\ pc = "train_stream"
    /\ frame.lines < MaxLines
    /\ \E io \in {"ok", "read", "log_write"}, flush_ok \in BOOLEAN :
        LET line == Entry("output", <<>>)
        IN
        CASE io = "ok" ->
               /\ logs' = AppendFile(logs, frame.log_file,
                                     Append(frame.buffer, line))
               /\ frame' = [frame EXCEPT !.lines = @ + 1, !.buffer = <<>>]
               /\ UNCHANGED <<pc, events, procs>>
          [] io = "read" ->
               /\ logs' \in Written(logs, frame, frame.buffer, flush_ok)
               /\ TrainingReturns("false", io, frame)
          [] io = "log_write" ->
               /\ logs' \in Written(logs, frame, Append(frame.buffer, line),
                                     FALSE)
               /\ TrainingReturns("false", io, frame)
    /\ UNCHANGED <<now, condaEnv, dirs, files, params, calls, cargs, ccmd>>

\* the child has closed its output: the loop ends and the with block closes
\* f, which writes the buffer; process.wait() is next
TrainEndOfOutput ==
    /\ pc = "train_stream"
    /\ \E flush_ok \in BOOLEAN :
        IF flush_ok \/ frame.buffer = <<>>
        THEN /\ logs' = AppendFile(logs, frame.log_file, frame.buffer)
             /\ frame' = [frame EXCEPT !.buffer = <<>>]
             /\ pc' = "train_wait"
             /\ UNCHANGED <<events, procs>>
        ELSE /\ logs' \in Written(logs, frame, frame.buffer, FALSE)
             /\ TrainingReturns("false", "log_write", frame)
    /\ UNCHANGED <<now, condaEnv, dirs, files, params, calls, cargs, ccmd>>

\* process.wait() returns: footer, snapshot update, return
TrainFinish ==
    /\ pc = "train_wait"
    /\ procs[frame.child].st = "exited"
    /\ \E footer_ok \in BOOLEAN, params_io \in ParamsOutcomes :
        LET rc    == procs[frame.child].rc
            pfile == ParamsFile(ExpDir(frame.method), frame.timestamp)
        IN
        /\ logs' \in Written(logs, frame, Footer(rc), footer_ok)
        /\ IF ~footer_ok
           THEN /\ TrainingReturns("false", "footer", frame)
                /\ UNCHANGED params
           ELSE
           /\ params' = WriteParams(params, pfile,
                                    Snapshot(frame.timestamp, rc), params_io)
           /\ IF params_io # "ok"
              THEN TrainingReturns("false", "params_io", frame)
              ELSE TrainingReturns(Outcome(Success(rc)), "ok", frame)
    /\ UNCHANGED <<now, condaEnv, dirs, files, calls, cargs, ccmd>>

\* train_simple after _try_conda_run: export dispatch and return
TrainAfter ==
    /\ pc = "train_after"
    /\ LET dir         == ExpDir(frame.method)
           config_path == PathJoin(PathJoin(dir, S_run), S_config_yml)
           variant     == ExportVariantFor(frame.method)
       IN
       IF /\ frame.training_success = "true"
          /\ frame.export_geometry
          /\ ConfigExists(config_path, files)
          /\ variant # "none"
       THEN /\ frame' = [frame EXCEPT
                            !.variant = variant,
                            !.config_path = config_path,
                            !.output_dir = dir,
                            !.pcp = pointcloud_params,
                            !.log_file = NoPath,
                            !.opened_w = FALSE,
                            !.buffer = <<>>,
                            !.child = 0,
                            !.lines = 0,
                            !.n_gs = IF variant = "gaussian_splat" THEN @ + 1 ELSE @,
                            !.n_pc = IF variant = "pointcloud" THEN @ + 1 ELSE @]
            /\ pc' = "export_enter"
            /\ UNCHANGED events
       ELSE /\ frame' = frame
            /\ events' = Append(events, Event("train_simple",
                                   frame.training_success, "ok", frame))
            /\ pc' = "returned"
    /\ UNCHANGED <<now, condaEnv, dirs, files, logs, params, procs, calls,
                   cargs, ccmd>>

(***************************************************************************)
(* export_gaussian_splat / export_pointcloud                               *)
(***************************************************************************)
\* The export leaves with result ("true", "false", "raised" or "exit").
\* Called from train_simple, a boolean is printed and train_simple returns
\* training_success; an exception or exit passes through train_simple.
ExportReturns(result, why, f) ==
    LET g  == [f EXCEPT !.buffer = <<>>]
        e1 == Event(g.variant, result, why, g)
        e2 == Event("train_simple",
                    IF result \in {"true", "false"}
                    THEN g.training_success ELSE result, why, g)
    IN  /\ frame' = g
        /\ events' = IF g.top = "train_simple"
                     THEN events \o <<e1, e2>>
                     ELSE Append(events, e1)
        /\ procs' = Release(procs, g)
        /\ pc' = IF result = "exit" THEN "dead" ELSE "returned"

\* "except Exception" of the exports: append the marker to log_file, return
\* False; the append itself may raise, in open(log_file, 'a'), which leaves
\* the files as they are, or later.  fs is the log state at the raise.
ExportHandler(why, handler_ok, fs, f) ==
    /\ logs' \in IF handler_ok
                 THEN Written(fs, f, <<ExceptionMarker>>, TRUE)
                 ELSE {fs} \cup Written(fs, f, <<ExceptionMarker>>, FALSE)
    /\ ExportReturns(IF handler_ok THEN "false" ELSE "raised", why, f)

\* the export up to its Popen call.  The header is written to the buffer of
\* the file object, not yet to the file; when Popen raises, the with block
\* closes the file object.
ExportEnter ==
    /\ pc = "export_enter"
    /\ \E mk_ok \in BOOLEAN, handler_ok \in BOOLEAN, flush_ok \in BOOLEAN,
          io \in {"ok", "log_open", "spawn"} :
        LET variant   == frame.variant
            timestamp == Strftime(now)
            cmd       == ExportCmd(variant, frame.config_path,
                                   frame.output_dir, frame.pcp)
            log_file  == ExportLogFile(variant, frame.output_dir, timestamp)
            present   == ConfigExists(frame.config_path, files)
            header == ExportHeader(variant, cmd, frame.config_path,
                                   frame.output_dir, frame.pcp)
            f0 == [frame EXCEPT !.cfg_present = present]
            f1 == [f0 EXCEPT !.timestamp = timestamp, !.log_file = log_file]
            f2 == [f1 EXCEPT !.opened_w = TRUE, !.buffer = header]
            opened == WriteFile(logs, log_file, <<>>)
        IN
        IF ~present
        THEN /\ ExportReturns("false", "config_missing", f0)
             /\ UNCHANGED <<dirs, logs>>
        ELSE IF frame.output_dir \notin dirs /\ ~mk_ok
        THEN /\ ExportReturns("raised", "makedirs", f0)
             /\ UNCHANGED <<dirs, logs>>
        ELSE
        /\ dirs' = dirs \cup {frame.output_dir}
        /\ IF ~CheckCondaEnvironment(condaEnv)
           THEN /\ ExportReturns("exit", "env", f0)
                /\ UNCHANGED logs
           ELSE
           CASE io = "log_open" ->
                  ExportHandler("log_open", handler_ok, logs, f1)
             [] io = "spawn" ->
                  \E closed \in Written(opened, f2, header, flush_ok) :
                      ExportHandler("spawn", handler_ok, closed, f2)
             [] io = "ok" ->
                  /\ logs' = opened
                  /\ procs' = Append(procs, Spawn(variant, <<>>, cmd))
                  /\ frame' = [f2 EXCEPT !.child = Len(procs) + 1]
                  /\ pc' = "export_stream"
                  /\ UNCHANGED events
    /\ UNCHANGED <<now, condaEnv, files, params, calls, cargs, ccmd>>

\* one iteration of "for line in process.stdout": f.write(line); f.flush()
\* puts the buffer and the line into the file.  When reading raises, the
\* with block closes f, which writes the buffer; when the flush raises,
\* part of the buffer and the line may have reached the file.
ExportStream ==
    /\ pc = "export_stream"
    /\ frame.lines < MaxLines
    /\ \E io \in {"ok", "read", "log_write"}, flush_ok \in BOOLEAN,
          handler_ok \in BOOLEAN :
        LET line == Entry("output", <<>>)
        IN
        CASE io = "ok" ->
               /\ logs' = AppendFile(logs, frame.log_file,
                                     Append(frame.buffer, line))
               /\ frame' = [frame EXCEPT !.lines = @ + 1, !.buffer = <<>>]
               /\ UNCHANGED <<pc, events, procs>>
          [] io = "read" ->
               \E closed \in Written(logs, frame, frame.buffer, flush_ok) :
                   ExportHandler(io, handler_ok, closed, frame)
          [] io = "log_write" ->
               \E closed \in Written(logs, frame,
                                      Append(frame.buffer, line), FALSE) :
                   ExportHandler(io, handler_ok, closed, frame)
    /\ UNCHANGED <<now, condaEnv, dirs, files, params, calls, cargs, ccmd>>

\* the child has closed its output: the loop ends and the with block closes
\* f, which writes the buffer; process.wait() is next
ExportEndOfOutput ==
    /\ pc = "export_stream"
    /\ \E flush_ok \in BOOLEAN, handler_ok \in BOOLEAN :
        IF flush_ok \/ frame.buffer = <<>>
        THEN /\ logs' = AppendFile(logs, frame.log_file, frame.buffer)
             /\ frame' = [frame EXCEPT !.buffer = <<>>]
             /\ pc' = "export_wait"
             /\ UNCHANGED <<events, procs>>
        ELSE \E closed \in Written(logs, frame, frame.buffer, FALSE) :
                 ExportHandler("log_write", handler_ok, closed, frame)
    /\ UNCHANGED <<now, condaEnv, dirs, files, params, calls, cargs, ccmd>>

\* process.wait() returns: footer, listing of .ply files, return
ExportFinish ==
    /\ pc = "export_wait"
    /\ procs[frame.child].st = "exited"
    /\ \E footer_ok \in BOOLEAN, listdir_ok \in BOOLEAN, handler_ok \in BOOLEAN :
        LET rc == procs[frame.child].rc
        IN
        \E after \in Written(logs, frame, Footer(rc), footer_ok) :
            IF ~footer_ok
            THEN ExportHandler("footer", handler_ok, after, frame)
            ELSE IF Success(rc) /\ ~listdir_ok
            THEN ExportHandler("listdir", handler_ok, after, frame)
            ELSE /\ logs' = after
                 /\ ExportReturns(Outcome(Success(rc)), "ok", frame)
    /\ UNCHANGED <<now, condaEnv, dirs, files, params, calls, cargs, ccmd>>

(***************************************************************************)
(* Specification of one top-level call                                     *)
(***************************************************************************)
Next ==
    \/ Tick
    \/ ChildExit
    \/ CallTrainSimple
    \/ CallExport
    \/ TrainEnter
    \/ TrainStream
    \/ TrainEndOfOutput
    \/ TrainFinish
    \/ TrainAfter
    \/ ExportEnter
    \/ ExportStream
    \/ ExportEndOfOutput
    \/ ExportFinish

Spec ==
    Init /\ [][Next]_vars

(***************************************************************************)
(* Specification of a caller that repeats an export                        *)
(***************************************************************************)
NextRerun ==
    \/ Tick
    \/ ChildExit
    \/ CallExport
    \/ Rerun
    \/ ExportEnter
    \/ ExportStream
    \/ ExportEndOfOutput
    \/ ExportFinish

SpecRerun ==
    Init /\ [][NextRerun]_vars

(***************************************************************************)
(* Specification of the command builder alone                              *)
(***************************************************************************)
Overrides ==
    {Ov_downscale_4, Ov_pipeline_x_off, Ov_timestamp_run, Ov_leading_space,
     Ov_downscale_suffix, Ov_empty, Ov_selector, Ov_vertical_tab,
     Ov_downscale_fs, Ov_unit_separator}

RECURSIVE SeqsUpTo(_, _)
SeqsUpTo(S, n) ==
    IF n = 0 THEN {<<>>}
    ELSE SeqsUpTo(S, n - 1)
         \cup {Append(s, x) : s \in {t \in SeqsUpTo(S, n - 1) : Len(t) = n - 1},
                              x \in S}

Dataparsers ==
    {S_nerfstudio_data, S_colmap}

InitCmd ==
    /\ now = 0
    /\ condaEnv = "nerfstudio"
    /\ dirs = {}
    /\ files = {}
    /\ logs = <<>>
    /\ params = <<>>
    /\ procs = <<>>
    /\ pc = "idle"
    /\ frame = IdleFrame
    /\ events = <<>>
    /\ calls = 0
    /\ cargs \in [method : Methods, config : SeqsUpTo(Overrides, MaxOverrides),
                  dataparser : Dataparsers, quit_viewer : BOOLEAN]
    /\ ccmd = <<>>

\* lines 218-250 of train_simple applied to the arguments
BuildCommand ==
    /\ ccmd = <<>>
    /\ ccmd' = NsCmd(cargs.method, BaseDir, ExperimentName, cargs.config,
                     cargs.dataparser, cargs.quit_viewer)
    /\ UNCHANGED <<cargs, runVars>>

NextCmd ==
    BuildCommand

SpecCmd ==
    InitCmd /\ [][NextCmd]_vars

(***************************************************************************)
(* Properties                                                              *)
(***************************************************************************)
ProcessOps ==
    {"_execute_training", "gaussian_splat", "pointcloud"}

EventSet ==
    {events[i] : i \in DOMAIN events}

Kinds(log) ==
    {log[i].kind : i \in DOMAIN log}

\* C1: whenever the child of _execute_training,
\* export_gaussian_splat or export_pointcloud was spawned and has terminated,
\* the operation returns true if and only if the exit status is 0.
C1_TrueIffExitZero ==
    \A e \in EventSet :
        (e.op \in ProcessOps /\ e.child # 0 /\ e.rc # NoReturnCode)
            => (e.result = "true" <=> e.rc = 0)

\* C2: an export whose config_path does not exist returns false in the same
\* step, spawns no child, creates no directory and no log file.
C2_MissingConfigShortCircuit ==
    [][(pc = "export_enter" /\ frame.config_path \notin files /\ pc' # pc)
        => /\ pc' = "returned"
           /\ Len(procs') = Len(procs)
           /\ dirs' = dirs
           /\ logs' = logs
           /\ Len(events') = Len(events) + 1
           /\ events'[Len(events')].op = frame.variant
           /\ events'[Len(events')].result = "false"]_vars

C2_Witness ==
    /\ pc = "returned"
    /\ frame.top \in {"gaussian_splat", "pointcloud"}
    /\ frame.config_path \notin files
    /\ frame.output_dir \notin dirs
    /\ Len(events) = 1
    /\ events[1].op = frame.top
    /\ events[1].result = "false"
    /\ procs = <<>>
    /\ DOMAIN logs = {}

\* C3: every call of train_simple, export_gaussian_splat or export_pointcloud
\* hands a boolean to its caller; none raises and none terminates the process.
C3_NoErrorEscapes ==
    /\ pc # "dead"
    /\ \A e \in EventSet : e.result \in {"true", "false"}

\* C4: when spawning the child fails after the log file was opened, the
\* operation returns false and its log file holds an exception marker.
C4_SpawnFailureMarked ==
    \A e \in EventSet :
        (e.op \in ProcessOps /\ e.why = "spawn") =>
            /\ e.result = "false"
            /\ e.log \in DOMAIN logs
            /\ "EXCEPTION:" \in Kinds(logs[e.log])

RECURSIVE TokensBefore(_, _, _)
\* number of tokens of the overrides before index i whose group is deferred
TokensBefore(config, i, deferred) ==
    IF i <= 1 THEN 0
    ELSE TokensBefore(config, i - 1, deferred)
         + (IF (/\ Len(config[i - 1]) >= Len(S_downscale_factor)
                /\ \A k \in 1..Len(S_downscale_factor) :
                       config[i - 1][k] = S_downscale_factor[k]) = deferred
            THEN Len(Split(config[i - 1])) ELSE 0)

\* C5: in the assembled ns-train command the tokens of the overrides that
\* begin with --downscale-factor follow the dataparser token, the tokens of
\* the other overrides stand between the fixed flags and the dataparser
\* token, the builder places the dataparser token once, and each group
\* keeps its input order.
C5_ArgumentOrder ==
    ccmd # <<>> =>
        LET config == cargs.config
            n == Len(config)
            Deferred(i) ==
                /\ Len(config[i]) >= Len(S_downscale_factor)
                /\ \A k \in 1..Len(S_downscale_factor) :
                       config[i][k] = S_downscale_factor[k]
            nGeneral == TokensBefore(config, n + 1, FALSE)
            nDeferred == TokensBefore(config, n + 1, TRUE)
            selPos == 16 + nGeneral + 1
        IN  /\ Len(ccmd) = 16 + nGeneral + 1 + nDeferred
            /\ ccmd[1] = S_ns_train
            /\ ccmd[2] = cargs.method
            /\ ccmd[3] = S_data
            /\ ccmd[5] = S_method_name
            /\ ccmd[6] = cargs.method
            /\ ccmd[7] = S_experiment_name
            /\ ccmd[9] = S_output_dir
            /\ ccmd[11] = S_quit_on_completion
            /\ ccmd[13] = S_steps_per_log
            /\ ccmd[15] = S_max_log_size
            /\ ccmd[selPos] = cargs.dataparser
            /\ \A i \in 1..n :
                 \A k \in 1..Len(Split(config[i])) :
                    ccmd[(IF Deferred(i) THEN selPos ELSE 16)
                         + TokensBefore(config, i, Deferred(i)) + k]
                       = Split(config[i])[k]
            /\ (/\ config = <<Ov_downscale_4, Ov_pipeline_x_off>>
                /\ cargs.dataparser = S_nerfstudio_data
                /\ cargs.method = S_splatfacto
                /\ ~cargs.quit_viewer)
                  => Join(ccmd) = Exp_example

C5_Witness ==
    /\ ccmd # <<>>
    /\ cargs.config = <<Ov_downscale_4, Ov_pipeline_x_off>>
    /\ cargs.dataparser = S_nerfstudio_data
    /\ ccmd[Len(ccmd) - 2] = S_nerfstudio_data

\* <base_dir>/nerf/nerf_data/<experiment_name>/<method>/run/config.yml
DescriptorOf(method) ==
    BaseDir \o <<"/">> \o S_nerf_data \o <<"/">> \o ExperimentName
    \o <<"/">> \o method \o <<"/">> \o S_run \o <<"/">> \o S_config_yml

\* C6: after _execute_training has returned, train_simple invokes an export
\* iff training succeeded, export_geometry is set, the descriptor exists and
\* the method is splatfacto or nerfacto; splatfacto gives one
\* export_gaussian_splat, nerfacto one export_pointcloud with
\* num_points=1000000, remove_outliers=True, normal_method="open3d",
\* save_world_frame=False; otherwise train_simple returns at once and spawns
\* nothing.  No export is invoked at any other point of the call.
C6_ExportDispatch ==
    [][/\ (pc = "train_after" /\ pc' # pc) =>
            LET wanted ==
                    /\ frame.training_success = "true"
                    /\ frame.export_geometry
                    /\ DescriptorOf(frame.method) \in files
                    /\ frame.method \in {S_splatfacto, S_nerfacto}
            IN  /\ frame.n_gs = 0 /\ frame.n_pc = 0
                /\ Len(procs') = Len(procs)
                /\ wanted <=> pc' = "export_enter"
                /\ ~wanted =>
                      /\ pc' = "returned"
                      /\ frame'.n_gs = 0 /\ frame'.n_pc = 0
                /\ (wanted /\ frame.method = S_splatfacto) =>
                      /\ frame'.variant = "gaussian_splat"
                      /\ frame'.n_gs = 1 /\ frame'.n_pc = 0
                /\ (wanted /\ frame.method = S_nerfacto) =>
                      /\ frame'.variant = "pointcloud"
                      /\ frame'.n_gs = 0 /\ frame'.n_pc = 1
                      /\ frame'.pcp = [num_points |-> 1000000,
                                       remove_outliers |-> TRUE,
                                       normal_method |-> S_open3d,
                                       save_world_frame |-> FALSE]
                /\ wanted =>
                      /\ frame'.config_path = DescriptorOf(frame.method)
                      /\ frame'.output_dir = ExpDir(frame.method)
       /\ (pc \notin {"train_after", "idle", "returned"}) =>
            /\ frame'.n_gs = frame.n_gs
            /\ frame'.n_pc = frame.n_pc
       /\ (frame.top = "train_simple" /\ Len(procs') > Len(procs)
           /\ pc # "train_enter") =>
            /\ pc = "export_enter"
            /\ frame.n_gs + frame.n_pc = 1
            /\ procs'[Len(procs')].kind = frame.variant
            /\ frame.variant = "pointcloud" =>
                 SubSeq(procs'[Len(procs')].tool, 7, 14) =
                    << S_num_points, S_1000000, S_remove_outliers, S_True,
                       S_normal_method, S_open3d, S_save_world_frame, S_False >>
      ]_vars

C6_Witness ==
    /\ pc = "returned"
    /\ \E e \in EventSet :
          /\ e.op = "train_simple"
          /\ e.method = S_nerfacto
          /\ e.n_pc = 1 /\ e.n_gs = 0
    /\ \E e \in EventSet : e.op = "pointcloud" /\ e.child # 0

\* C7: train_simple returns the boolean produced by the training execution,
\* whatever the follow-up export did.
C7_ReportsTrainingResult ==
    \A e \in EventSet :
        (e.op = "train_simple" /\ e.training # "unset")
            => e.result = e.training

\* C8: a run never opens for writing a log file that already exists, so two
\* runs of the same operation write two distinct log files.
C8_FreshLogPerRun ==
    [][(pc \in {"train_enter", "export_enter"} /\ frame'.opened_w)
         => frame'.log_file \notin DOMAIN logs]_vars

\* C9: at most one child is running at any time, an export child is spawned
\* only after the training child has exited, and an operation returns only
\* after the child it spawned has exited.
C9_OneChildAndJoined ==
    /\ Cardinality(Running) <= 1
    /\ pc \in {"export_enter", "export_stream", "export_wait"} =>
          \A i \in DOMAIN procs : procs[i].kind = "train" => procs[i].st = "exited"
    /\ \A e \in EventSet : e.child # 0 => procs[e.child].st = "exited"

\* C10: the tool invocation an export child executes is the assembled
\* argument list, the one written on the Command: line of its log file.
C10_ExecutedEqualsLogged ==
    (pc \in {"export_stream", "export_wait"} /\ frame.child # 0) =>
        LET p == procs[frame.child]
            written == logs[frame.log_file] \o frame.buffer
        IN  /\ written[2].kind = "Command:"
            /\ Join(p.tool) = written[2].text
            /\ p.tool = ExportCmd(frame.variant, frame.config_path,
                                  frame.output_dir, frame.pcp)

====
